---- MODULE Spec2Model ----
(***************************************************************************)
(* A model of the response cache (python/ollama_cache.py), the error       *)
(* handler and the retry driver (python/ollama_errors.py) and the lookup / *)
(* write-back flow (python/ollama_simple_async.py) of aoxilus/ollama_enfa. *)
(*                                                                         *)
(* Strings are sequences of one-character strings.  The cache directory is *)
(* the function `files` from cache key to the content of <key>.json.       *)
(***************************************************************************)
EXTENDS Integers, Sequences, FiniteSets, TLC

VARIABLES
    files,            \* cache_dir: cache key -> content of the file <key>.json
    mtimes,           \* cache_dir: cache key -> modification time of <key>.json
    now,              \* the wall clock read by datetime.now(), in seconds
    max_age_seconds,  \* OllamaCache.max_age_seconds
    last,             \* the most recent call, when it ran and what it gave its caller
    cleared,          \* the most recent call of clear: its argument, the files it
                      \* could not inspect or remove, and the count it returned
    rpc,              \* retry_operation: where the coroutine stands
    max_retries,      \* retry_operation: its argument max_retries
    delay,            \* retry_operation: its argument delay
    attempt,          \* retry_operation: the loop variable
    last_error,       \* retry_operation: the local last_error
    outcomes,         \* history: what each invocation of the operation gave, in order
    waits,            \* history: the durations passed to asyncio.sleep, in order
    result,           \* retry_operation: what it gave its caller
    pc,               \* main of ollama_simple_async: where the run stands
    run,              \* main: the locals of the current run
    produced,         \* history: (question, context, model) -> the response the
                      \* generation call last produced for it
    error_count,      \* ErrorHandler.error_count
    error_stats,      \* ErrorHandler.error_stats: kind -> count
    handled,          \* the most recent call of the handler and what it returned
    validated,        \* the most recent call of validate_question and its verdict
    connected,        \* the most recent call of check_ollama_connection: what the
                      \* service answered and what the call returned
    workers,          \* thread pool workers inside handle_error: where each
                      \* stands and the values it has loaded
    procs,            \* concurrent callers of the cache: the call each is in,
                      \* where it stands and the file handle it holds
    sizes             \* cache_dir: cache key -> length of <key>.json, kept for
                      \* the files the concurrent callers write

cacheVars == <<files, mtimes, now, max_age_seconds, last, cleared>>
retryVars == <<rpc, max_retries, delay, attempt, last_error, outcomes, waits, result>>
flowVars == <<pc, run, produced>>
handlerVars == <<error_count, error_stats, handled>>
sideVars == <<validated, connected, workers, procs, sizes>>
vars == <<cacheVars, retryVars, flowVars, handlerVars, sideVars>>

---------------------------------------------------------------------------
(* Bounds and input sets                                                   *)

\* number of times the clock advances in a behaviour
MaxTicks == 2

SecondsPerHour == 3600

\* one step of the clock
TickSeconds == SecondsPerHour

\* values of the constructor's max_age_hours
MaxAgeHours == {0, 1}

Questions == {<<"a">>, <<"a", "|">>}
Contexts  == {<<>>, <<"|">>}
Models    == {<<>>}
Responses == {<<>>, <<"x">>}

\* The (question, context, model) triples the cache is called with: two that
\* differ in the place of the "|" and one apart from both.
Triples == (Questions \X Contexts \X Models) \ {<< <<"a", "|">>, <<"|">>, <<>> >>}

\* Python's None: no string over the alphabet equals it
None == <<"None">>

---------------------------------------------------------------------------
(* The persisted file                                                      *)

\* json.dump of a cache_data built with response and context exchanged
json_dump_swapped(question, response, context, model, timestamp, cache_key) ==
    [parse |-> "object",
     has_timestamp |-> TRUE, timestamp_form |-> "iso", timestamp |-> timestamp,
     has_response |-> TRUE, response |-> context,
     question |-> question, context |-> response, model |-> model,
     cache_key |-> cache_key]

\* What json.dump writes for cache_data: a JSON object with the six fields.
\* datetime.isoformat() gives a string of form "iso" carrying the instant.
json_dump(question, response, context, model, timestamp, cache_key) ==
    [parse |-> "object",
     has_timestamp |-> TRUE, timestamp_form |-> "iso", timestamp |-> timestamp,
     has_response |-> TRUE, response |-> response,
     question |-> question, context |-> context, model |-> model,
     cache_key |-> cache_key]

\* A file whose write failed after open(..., 'w') truncated it: no JSON document.
Truncated ==
    [parse |-> "invalid_json",
     has_timestamp |-> FALSE, timestamp_form |-> "iso", timestamp |-> 0,
     has_response |-> FALSE, response |-> <<>>,
     question |-> <<>>, context |-> <<>>, model |-> <<>>, cache_key |-> <<>>]

\* Malformed payloads that can stand in place of an entry:
\*   undecodable   bytes that are not UTF-8
\*   invalid_json  text json.load cannot parse
\*   scalar        a JSON document that is not an object (list, string, number, null)
\*   object        an object lacking a field, or with a timestamp that is no ISO string
Malformed(t) ==
    {[Truncated EXCEPT !.parse = p] : p \in {"undecodable", "invalid_json", "scalar"}}
    \cup {[Truncated EXCEPT !.parse = "object", !.has_response = TRUE, !.response = <<"x">>]}
    \cup {[Truncated EXCEPT !.parse = "object", !.has_timestamp = TRUE, !.timestamp = t]}
    \cup {[Truncated EXCEPT !.parse = "object", !.has_timestamp = TRUE, !.timestamp_form = f,
                            !.has_response = TRUE, !.response = <<"x">>]
            : f \in {"bad_string", "not_string"}}

---------------------------------------------------------------------------
(* OllamaCache                                                             *)

\* hashlib.md5(...).hexdigest(), taken to be injective on the string it hashes
md5_hexdigest(content) == content

generate_cache_key(question, context, model) ==
    md5_hexdigest(question \o <<"|">> \o context \o <<"|">> \o model)

\* os.path.exists(cache_file)
exists(cache_key) == cache_key \in DOMAIN files

\* the comparison with >= in place of >
expired_at_max_age(cache_time) == now - cache_time >= max_age_seconds

\* datetime.now() - cache_time > timedelta(seconds=self.max_age_seconds)
expired(cache_time) == now - cache_time > max_age_seconds

\* os.remove(cache_file) taken to empty the cache directory
remove_every(cache_key) == [k \in {} |-> files[k]]

\* os.remove(cache_file)
remove(cache_key) == [k \in DOMAIN files \ {cache_key} |-> files[k]]

\* the modification times of the files that are left
kept(remaining) == [k \in DOMAIN remaining |-> mtimes[k]]

\* the modification times after the file of cache_key was written at `now`
written(cache_key) ==
    [k \in DOMAIN mtimes \cup {cache_key} |-> IF k = cache_key THEN now ELSE mtimes[k]]

\* What a call gives back: the value returned or the exception left uncaught,
\* whether a file operation failed on the way, and the path taken.
Returned(value, outcome, io_failed) ==
    [result |-> value, raised |-> "none", io_failed |-> io_failed, outcome |-> outcome]

Raised(exc, outcome, io_failed) ==
    [result |-> None, raised |-> exc, io_failed |-> io_failed, outcome |-> outcome]

\* The body of get's try block on the file content f.  fault names the file
\* operation that fails with an OSError during this call ("none": no failure).
get_try(f, fault) ==
    IF fault \in {"open", "read"} THEN Raised("OSError", "io", TRUE)
    ELSE IF f.parse = "undecodable" THEN Raised("UnicodeDecodeError", "corrupt", FALSE)
    ELSE IF f.parse = "invalid_json" THEN Raised("JSONDecodeError", "corrupt", FALSE)
    ELSE IF f.parse = "scalar" THEN Raised("TypeError", "corrupt", FALSE)
    ELSE IF ~f.has_timestamp THEN Raised("KeyError", "corrupt", FALSE)
    ELSE IF f.timestamp_form = "not_string" THEN Raised("TypeError", "corrupt", FALSE)
    ELSE IF f.timestamp_form = "bad_string" THEN Raised("ValueError", "corrupt", FALSE)
    ELSE IF expired(f.timestamp)
         THEN IF fault = "remove" THEN Raised("OSError", "expired", TRUE)
              ELSE Returned(None, "expired", FALSE)
    ELSE IF ~f.has_response THEN Raised("KeyError", "corrupt", FALSE)
    ELSE Returned(f.response, "hit", FALSE)

\* except (json.JSONDecodeError, KeyError, OSError)
get_caught == {"JSONDecodeError", "KeyError", "OSError"}

\* get as a whole: what the caller sees
get_outcome(cache_key, fault) ==
    IF ~exists(cache_key) THEN Returned(None, "miss", FALSE)
    ELSE LET t == get_try(files[cache_key], fault) IN
         IF t.raised \in get_caught
         THEN IF fault = "remove" THEN Raised("OSError", t.outcome, TRUE)
              ELSE Returned(None, t.outcome, t.io_failed)
         ELSE t

\* get as a whole: the cache directory afterwards
get_files(cache_key, fault) ==
    IF ~exists(cache_key) THEN files
    ELSE LET t == get_try(files[cache_key], fault) IN
         IF t.raised \in get_caught
         THEN IF fault = "remove" THEN files ELSE remove(cache_key)
         ELSE IF t.raised = "none" /\ t.outcome = "expired" THEN remove(cache_key)
         ELSE files

GetFaults == {"none", "open", "read", "remove"}
SetFaults == {"none", "open", "write"}

\* A file that holds what set writes: an object with an ISO timestamp and a response
WellFormed(f) ==
    /\ f.parse = "object"
    /\ f.has_timestamp /\ f.timestamp_form = "iso"
    /\ f.has_response

\* What the file of a key held when a call began: None when there was no
\* file, the stored response of a well-formed entry, a mark otherwise.
Prior(cache_key) ==
    IF ~exists(cache_key) THEN None
    ELSE IF WellFormed(files[cache_key]) THEN files[cache_key].response
    ELSE <<"malformed">>

\* The record of a call: its arguments, the time it ran, what the file of its
\* key held when it began, and what it gave back.
Call(op, question, context, model, response, o) ==
    [op |-> op, q |-> question, c |-> context, m |-> model, r |-> response,
     at |-> now,
     prior |-> IF op \in {"get", "set"}
               THEN Prior(generate_cache_key(question, context, model)) ELSE None,
     result |-> o.result, raised |-> o.raised, io_failed |-> o.io_failed,
     outcome |-> o.outcome]

get(question, context, model, fault) ==
    LET cache_key == generate_cache_key(question, context, model) IN
    /\ files' = get_files(cache_key, fault)
    /\ mtimes' = kept(get_files(cache_key, fault))
    /\ last' = Call("get", question, context, model, <<>>, get_outcome(cache_key, fault))
    /\ UNCHANGED <<now, max_age_seconds, cleared>>

\* set with the file opened in mode 'a': a second document follows the first
set_files_append(cache_key, cache_data, fault) ==
    IF fault = "open" THEN files
    ELSE [k \in DOMAIN files \cup {cache_key} |->
            IF k = cache_key
            THEN (IF fault = "write" \/ cache_key \in DOMAIN files
                  THEN [parse |-> "invalid_json",
                        has_timestamp |-> FALSE, timestamp_form |-> "iso", timestamp |-> 0,
                        has_response |-> FALSE, response |-> <<>>,
                        question |-> <<>>, context |-> <<>>, model |-> <<>>,
                        cache_key |-> <<>>]
                  ELSE cache_data)
            ELSE files[k]]

\* The file after set: open(cache_file, 'w') creates or truncates it, then
\* json.dump writes the document.
set_files(cache_key, cache_data, fault) ==
    IF fault = "open" THEN files
    ELSE [k \in DOMAIN files \cup {cache_key} |->
            IF k = cache_key
            THEN (IF fault = "write" THEN Truncated ELSE cache_data)
            ELSE files[k]]

set(question, response, context, model, fault) ==
    LET cache_key == generate_cache_key(question, context, model)
        cache_data == json_dump(question, response, context, model, now, cache_key)
    IN
    /\ files' = set_files(cache_key, cache_data, fault)
    /\ mtimes' = IF fault = "open" THEN mtimes ELSE written(cache_key)
    /\ last' = Call("set", question, context, model, response,
                    IF fault = "none" THEN Returned(None, "stored", FALSE)
                                      ELSE Returned(None, "warned", TRUE))
    /\ UNCHANGED <<now, max_age_seconds, cleared>>

\* Malformed data written in place of an entry, from outside the program.
Corrupt(cache_key, payload) ==
    /\ exists(cache_key)
    /\ files' = [files EXCEPT ![cache_key] = payload]
    /\ mtimes' = written(cache_key)
    /\ last' = Call("corrupt", <<>>, <<>>, <<>>, <<>>, Returned(None, "corrupt", FALSE))
    /\ UNCHANGED <<now, max_age_seconds, cleared>>

\* Time passes.
Tick ==
    /\ now < MaxTicks * TickSeconds
    /\ now' = now + TickSeconds
    /\ UNCHANGED <<files, mtimes, max_age_seconds, last, cleared>>

\* clear has not been called
NoClear == [max_age_hours |-> <<>>, skipped |-> {}, count |-> 0]

\* the age test of clear with >= in place of >
stale_at_threshold(cache_key, threshold) == now - mtimes[cache_key] >= threshold

\* time.time() - file_time > max_age_seconds
stale(cache_key, threshold) == now - mtimes[cache_key] > threshold

\* clear(max_age_hours): <<>> stands for the argument left out (None), <<h>>
\* for the argument h.  skipped are the files whose os.path.getmtime or
\* os.remove raises OSError during this call.
clear(max_age_hours, skipped) ==
    LET hours == IF max_age_hours = <<>>
                 THEN max_age_seconds \div SecondsPerHour
                 ELSE max_age_hours[1]
        threshold == hours * SecondsPerHour
        removed == {k \in DOMAIN files \ skipped : stale(k, threshold)}
        remaining == [k \in DOMAIN files \ removed |-> files[k]]
    IN
    /\ files' = remaining
    /\ mtimes' = kept(remaining)
    /\ cleared' = [max_age_hours |-> max_age_hours, skipped |-> skipped,
                   count |-> Cardinality(removed)]
    /\ last' = Call("clear", <<>>, <<>>, <<>>, <<>>,
                    Returned(None, "cleared", skipped # {}))
    /\ UNCHANGED <<now, max_age_seconds>>

\* OllamaCache.__init__ on an empty cache directory
CacheInit(hours) ==
    /\ files = <<>>
    /\ mtimes = <<>>
    /\ cleared = NoClear
    /\ now = 0
    /\ \E max_age_hours \in hours : max_age_seconds = max_age_hours * SecondsPerHour
    /\ last = Call("init", <<>>, <<>>, <<>>, <<>>, Returned(None, "init", FALSE))

---------------------------------------------------------------------------
(* ErrorHandler of ollama_errors                                           *)

\* ErrorType: the values of the ten members
ErrorTypes ==
    {"connection", "timeout", "authentication", "validation", "rate_limit",
     "model_not_found", "invalid_response", "file_system", "network", "unknown"}

UpperCase == <<"A", "B", "C", "D", "E", "F", "G", "H", "I", "J", "K", "L", "M",
               "N", "O", "P", "Q", "R", "S", "T", "U", "V", "W", "X", "Y", "Z">>
LowerCase == <<"a", "b", "c", "d", "e", "f", "g", "h", "i", "j", "k", "l", "m",
               "n", "o", "p", "q", "r", "s", "t", "u", "v", "w", "x", "y", "z">>

\* str.lower()
lower(s0) ==
    [i \in 1 .. Len(s0) |->
        IF \E j \in 1 .. Len(UpperCase) : UpperCase[j] = s0[i]
        THEN LowerCase[CHOOSE j \in 1 .. Len(UpperCase) : UpperCase[j] = s0[i]]
        ELSE s0[i]]

\* `sub in s0`
contains(s0, sub) ==
    \E i \in 1 .. (Len(s0) - Len(sub) + 1) : SubSeq(s0, i, i + Len(sub) - 1) = sub

timeout_word ==
    <<"t", "i", "m", "e", "o", "u", "t">>

connection_word ==
    <<"c", "o", "n", "n", "e", "c", "t", "i", "o", "n">>

\* The classes of the raw failures handed to handle_error, each with the
\* classes it is an instance of among those _classify_error tests.
\* aiohttp.ServerTimeoutError derives from both aiohttp.ClientError and
\* asyncio.TimeoutError.
RawClasses ==
    {"asyncio.TimeoutError", "aiohttp.ServerTimeoutError",
     "aiohttp.ClientConnectorError", "aiohttp.ClientPayloadError",
     "FileNotFoundError", "PermissionError", "Exception"}

isinstance(error, base) ==
    \/ error.cls = base
    \/ error.cls = "aiohttp.ServerTimeoutError"
          /\ base \in {"aiohttp.ClientError", "asyncio.TimeoutError"}
    \/ error.cls \in {"aiohttp.ClientConnectorError", "aiohttp.ClientPayloadError"}
          /\ base = "aiohttp.ClientError"
    \/ error.error_type # "none" /\ base = "OllamaError"

\* type(error).__name__
type_name(error) ==
    CASE error.cls = "asyncio.TimeoutError" -> "TimeoutError"
      [] error.cls = "aiohttp.ServerTimeoutError" -> "ServerTimeoutError"
      [] error.cls = "aiohttp.ClientConnectorError" -> "ClientConnectorError"
      [] error.cls = "aiohttp.ClientPayloadError" -> "ClientPayloadError"
      [] OTHER -> error.cls

\* `details or {}` of an error built without details
NoDetails == [original_error |-> None, error_type |-> "none"]

\* a raw exception: its class and str(error)
RawError(cls, message) ==
    [cls |-> cls, message |-> message, error_type |-> "none", details |-> NoDetails]

\* OllamaError.__init__ and those of its subclasses
OllamaError(cls, message, error_type0, details) ==
    [cls |-> cls, message |-> message, error_type |-> error_type0, details |-> details]

deadline_message ==
    <<"L", "a", " ", "o", "p", "e", "r", "a", "c", "i", "o", "n", " ", "t",
      "a", "r", "d", "o", " ", "d", "e", "m", "a", "s", "i", "a", "d", "o",
      " ", "e", "n", " ", "c", "o", "m", "p", "l", "e", "t", "a", "r", "s",
      "e">>

client_timeout_message ==
    <<"T", "i", "m", "e", "o", "u", "t", " ", "d", "e", " ", "c", "o", "n",
      "e", "x", "i", "o", "n", " ", "c", "o", "n", " ", "O", "l", "l", "a",
      "m", "a">>

client_connection_message ==
    <<"N", "o", " ", "s", "e", " ", "p", "u", "e", "d", "e", " ", "c", "o",
      "n", "e", "c", "t", "a", "r", " ", "a", " ", "O", "l", "l", "a", "m",
      "a">>

client_other_message ==
    <<"E", "r", "r", "o", "r", " ", "d", "e", " ", "r", "e", "d", " ", "c",
      "o", "n", " ", "O", "l", "l", "a", "m", "a">>

file_not_found_message ==
    <<"A", "r", "c", "h", "i", "v", "o", " ", "n", "o", " ", "e", "n", "c",
      "o", "n", "t", "r", "a", "d", "o">>

permission_message ==
    <<"E", "r", "r", "o", "r", " ", "d", "e", " ", "p", "e", "r", "m", "i",
      "s", "o", "s">>

unknown_prefix ==
    <<"E", "r", "r", "o", "r", " ", "i", "n", "e", "s", "p", "e", "r", "a",
      "d", "o", ":", " ">>

\* the rule for the word connection tried before the rule for the word timeout
classify_connection_first(error) ==
    LET error_str == lower(error.message)
        details == [original_error |-> error.message, error_type |-> type_name(error)]
    IN
    IF isinstance(error, "aiohttp.ClientError")
    THEN IF contains(error_str, connection_word)
         THEN OllamaError("ConnectionError", client_connection_message, "connection", details)
         ELSE IF contains(error_str, timeout_word)
         THEN OllamaError("TimeoutError", client_timeout_message, "timeout", details)
         ELSE OllamaError("ConnectionError", client_other_message, "connection", details)
    ELSE IF isinstance(error, "asyncio.TimeoutError")
    THEN OllamaError("TimeoutError", deadline_message, "timeout", details)
    ELSE IF isinstance(error, "FileNotFoundError")
    THEN OllamaError("ValidationError", file_not_found_message, "validation", details)
    ELSE IF isinstance(error, "PermissionError")
    THEN OllamaError("ValidationError", permission_message, "validation", details)
    ELSE OllamaError("OllamaError", unknown_prefix \o error.message, "unknown", details)

\* an unmatched failure classified without its details
classify_unknown_bare(error) ==
    LET error_str == lower(error.message)
        details == [original_error |-> error.message, error_type |-> type_name(error)]
    IN
    IF isinstance(error, "asyncio.TimeoutError")
    THEN OllamaError("TimeoutError", deadline_message, "timeout", details)
    ELSE IF isinstance(error, "aiohttp.ClientError")
    THEN IF contains(error_str, timeout_word)
         THEN OllamaError("TimeoutError", client_timeout_message, "timeout", details)
         ELSE IF contains(error_str, connection_word)
         THEN OllamaError("ConnectionError", client_connection_message, "connection", details)
         ELSE OllamaError("ConnectionError", client_other_message, "connection", details)
    ELSE IF isinstance(error, "FileNotFoundError")
    THEN OllamaError("ValidationError", file_not_found_message, "validation", details)
    ELSE IF isinstance(error, "PermissionError")
    THEN OllamaError("ValidationError", permission_message, "validation", details)
    ELSE OllamaError("OllamaError", unknown_prefix \o error.message, "unknown", NoDetails)

\* ErrorHandler._classify_error: the rules in the order the code tries them
classify_error(error) ==
    LET error_str == lower(error.message)
        details == [original_error |-> error.message, error_type |-> type_name(error)]
    IN
    IF isinstance(error, "asyncio.TimeoutError")
    THEN OllamaError("TimeoutError", deadline_message, "timeout", details)
    ELSE IF isinstance(error, "aiohttp.ClientError")
    THEN IF contains(error_str, timeout_word)
         THEN OllamaError("TimeoutError", client_timeout_message, "timeout", details)
         ELSE IF contains(error_str, connection_word)
         THEN OllamaError("ConnectionError", client_connection_message, "connection", details)
         ELSE OllamaError("ConnectionError", client_other_message, "connection", details)
    ELSE IF isinstance(error, "FileNotFoundError")
    THEN OllamaError("ValidationError", file_not_found_message, "validation", details)
    ELSE IF isinstance(error, "PermissionError")
    THEN OllamaError("ValidationError", permission_message, "validation", details)
    ELSE OllamaError("OllamaError", unknown_prefix \o error.message, "unknown", details)

\* The table of _get_user_message (written without the leading pictograph and
\* without accents).

messages ==
    [error_type0 \in ErrorTypes |->
        CASE error_type0 = "connection" ->
              <<"N", "o", " ", "s", "e", " ", "p", "u", "e", "d", "e", " ",
                "c", "o", "n", "e", "c", "t", "a", "r", " ", "a", " ", "O",
                "l", "l", "a", "m", "a", ".", " ", "V", "e", "r", "i", "f",
                "i", "c", "a", " ", "q", "u", "e", " ", "e", "s", "t", "e",
                " ", "e", "j", "e", "c", "u", "t", "a", "n", "d", "o", "s",
                "e", ".">>
          [] error_type0 = "timeout" ->
              <<"L", "a", " ", "o", "p", "e", "r", "a", "c", "i", "o", "n",
                " ", "t", "a", "r", "d", "o", " ", "d", "e", "m", "a", "s",
                "i", "a", "d", "o", ".", " ", "I", "n", "t", "e", "n", "t",
                "a", " ", "d", "e", " ", "n", "u", "e", "v", "o", ".">>
          [] error_type0 = "authentication" ->
              <<"E", "r", "r", "o", "r", " ", "d", "e", " ", "a", "u", "t",
                "e", "n", "t", "i", "c", "a", "c", "i", "o", "n", ".", " ",
                "V", "e", "r", "i", "f", "i", "c", "a", " ", "t", "u", " ",
                "c", "o", "n", "f", "i", "g", "u", "r", "a", "c", "i", "o",
                "n", ".">>
          [] error_type0 = "validation" ->
              <<"E", "r", "r", "o", "r", " ", "d", "e", " ", "v", "a", "l",
                "i", "d", "a", "c", "i", "o", "n", ".", " ", "V", "e", "r",
                "i", "f", "i", "c", "a", " ", "l", "o", "s", " ", "d", "a",
                "t", "o", "s", " ", "d", "e", " ", "e", "n", "t", "r", "a",
                "d", "a", ".">>
          [] error_type0 = "rate_limit" ->
              <<"D", "e", "m", "a", "s", "i", "a", "d", "a", "s", " ", "c",
                "o", "n", "s", "u", "l", "t", "a", "s", ".", " ", "E", "s",
                "p", "e", "r", "a", " ", "u", "n", " ", "m", "o", "m", "e",
                "n", "t", "o", ".">>
          [] error_type0 = "model_not_found" ->
              <<"M", "o", "d", "e", "l", "o", " ", "n", "o", " ", "e", "n",
                "c", "o", "n", "t", "r", "a", "d", "o", ".", " ", "V", "e",
                "r", "i", "f", "i", "c", "a", " ", "q", "u", "e", " ", "e",
                "s", "t", "e", " ", "i", "n", "s", "t", "a", "l", "a", "d",
                "o", ".">>
          [] error_type0 = "invalid_response" ->
              <<"R", "e", "s", "p", "u", "e", "s", "t", "a", " ", "i", "n",
                "v", "a", "l", "i", "d", "a", " ", "d", "e", "l", " ", "s",
                "e", "r", "v", "i", "d", "o", "r", ".">>
          [] error_type0 = "file_system" ->
              <<"E", "r", "r", "o", "r", " ", "d", "e", "l", " ", "s", "i",
                "s", "t", "e", "m", "a", " ", "d", "e", " ", "a", "r", "c",
                "h", "i", "v", "o", "s", ".">>
          [] error_type0 = "network" ->
              <<"E", "r", "r", "o", "r", " ", "d", "e", " ", "r", "e", "d",
                ".", " ", "V", "e", "r", "i", "f", "i", "c", "a", " ", "t",
                "u", " ", "c", "o", "n", "e", "x", "i", "o", "n", ".">>
          [] error_type0 = "unknown" ->
              <<"E", "r", "r", "o", "r", " ", "i", "n", "e", "s", "p", "e",
                "r", "a", "d", "o", ".", " ", "R", "e", "v", "i", "s", "a",
                " ", "l", "o", "s", " ", "l", "o", "g", "s", " ", "p", "a",
                "r", "a", " ", "m", "a", "s", " ", "d", "e", "t", "a", "l",
                "l", "e", "s", ".">>]

\* the sentence followed by the message of the error it is given
get_user_message_quoting(error) ==
    IF error.error_type \in DOMAIN messages
    THEN messages[error.error_type] \o error.message
    ELSE messages["unknown"]

\* ErrorHandler._get_user_message: messages.get(error.error_type, messages[UNKNOWN])
get_user_message(error) ==
    IF error.error_type \in DOMAIN messages
    THEN messages[error.error_type]
    ELSE messages["unknown"]

\* largest number of errors counted between two resets
MaxErrors == 2

\* str(error) of the raw failures handed to handle_error
RawMessages ==
    { <<>>,
      <<"T", "i", "m", "e", "o", "u", "t">>,
      <<"C", "o", "n", "n", "e", "c", "t", "i", "o", "n", " ", "r", "e", "f",
        "u", "s", "e", "d">>,
      <<"C", "o", "n", "n", "e", "c", "t", "i", "o", "n", " ", "t", "i", "m",
        "e", "o", "u", "t">>,
      <<"b", "o", "o", "m">> }

\* the class of the module that carries a kind
own_class(error_type0) ==
    CASE error_type0 = "connection" -> "ConnectionError"
      [] error_type0 = "timeout" -> "TimeoutError"
      [] error_type0 = "validation" -> "ValidationError"
      [] error_type0 = "model_not_found" -> "ModelNotFoundError"
      [] error_type0 = "rate_limit" -> "RateLimitError"
      [] OTHER -> "OllamaError"

\* the errors handed to handle_error: raw failures, and errors of the module
\* of every kind
HandledErrors ==
    {RawError(cls, message) : cls \in RawClasses, message \in RawMessages}
    \cup {OllamaError(own_class(t), message, t, NoDetails) :
            t \in ErrorTypes, message \in {<<"x">>, <<"T", "i", "m", "e", "o", "u", "t">>}}

\* no call of the handler yet
NoCall ==
    [op |-> "init", error |-> RawError("none", <<>>),
     classified |-> RawError("none", <<>>), log_failed |-> FALSE,
     returned |-> <<>>, raised |-> "none"]

\* ErrorHandler.__init__
HandlerIdle ==
    /\ error_count = 0
    /\ error_stats = [t \in ErrorTypes |-> 0]
    /\ handled = NoCall

\* handle_error with the log written before anything is counted and its
\* failure stopping the call
handle_error_log_first(error, log_fails) ==
    LET e == IF ~isinstance(error, "OllamaError") THEN classify_error(error) ELSE error IN
    /\ error_count < MaxErrors
    /\ IF log_fails
       THEN UNCHANGED <<error_count, error_stats>>
       ELSE /\ error_count' = error_count + 1
            /\ error_stats' = [error_stats EXCEPT ![e.error_type] = @ + 1]
    /\ handled' = [op |-> "handle_error", error |-> error, classified |-> e,
                   log_failed |-> log_fails,
                   returned |-> IF log_fails THEN <<>> ELSE get_user_message(e),
                   raised |-> IF log_fails THEN "OSError" ELSE "none"]

\* ErrorHandler.handle_error: count, classify a raw failure, count the kind,
\* write the log (a failure to write it is caught and reported on stderr),
\* return the sentence of the kind.
handle_error(error, log_fails) ==
    LET e == IF ~isinstance(error, "OllamaError") THEN classify_error(error) ELSE error IN
    /\ error_count < MaxErrors
    /\ error_count' = error_count + 1
    /\ error_stats' = [error_stats EXCEPT ![e.error_type] = @ + 1]
    /\ handled' = [op |-> "handle_error", error |-> error, classified |-> e,
                   log_failed |-> log_fails,
                   returned |-> get_user_message(e),
                   raised |-> "none"]

\* ErrorHandler.clear_stats
clear_stats ==
    /\ error_count' = 0
    /\ error_stats' = [t \in ErrorTypes |-> 0]
    /\ handled' = [NoCall EXCEPT !.op = "clear_stats"]

---------------------------------------------------------------------------
(* Callers that have not started                                           *)

\* validate_question has not been called
NoValidation == [called |-> FALSE, question |-> <<>>, result |-> FALSE]

\* check_ollama_connection has not been called
NoConnection ==
    [called |-> FALSE, failure |-> "none", status |-> 0, models |-> <<>>,
     ok |-> FALSE, value |-> <<>>]

\* the threads of the pool that call handle_error
Workers == {1, 2}

\* a worker that has not entered handle_error
IdleWorker == [pc |-> "idle", error |-> RawError("none", <<>>), count |-> 0, stat |-> 0]

\* the concurrent callers of the cache; each makes one call
Procs == {1, 2, 3}

\* a caller that has not entered get or set
IdleProc ==
    [pc |-> "idle", op |-> "none", q |-> <<>>, c |-> <<>>, m |-> <<>>, r |-> <<>>,
     timestamp |-> 0, handle |-> "none", seen |-> "none",
     result |-> None, raised |-> "none"]

SideIdle ==
    /\ validated = NoValidation
    /\ connected = NoConnection
    /\ workers = [w \in Workers |-> IdleWorker]
    /\ procs = [p \in Procs |-> IdleProc]
    /\ sizes = <<>>

---------------------------------------------------------------------------
(* retry_operation                                                         *)

\* largest max_retries tried
MaxAttempts == 4

\* values of the argument max_retries
RetryCounts == (0 - 1) .. MaxAttempts

\* values of the argument delay
Delays == {1, 2}

\* The exception classes an operation raises: the module's own ConnectionError,
\* TimeoutError and ValidationError (subclasses of OllamaError), and the raw
\* asyncio.TimeoutError and Exception, which are no OllamaError.
FailureClasses ==
    {"ConnectionError", "TimeoutError", "ValidationError",
     "asyncio.TimeoutError", "Exception"}

\* error_type of an exception: the ErrorType its constructor passes to
\* OllamaError; a raw exception carries none.
error_type(cls) ==
    CASE cls = "ConnectionError" -> "connection"
      [] cls = "TimeoutError" -> "timeout"
      [] cls = "ValidationError" -> "validation"
      [] OTHER -> "none"

\* what one invocation of the operation gave: "ok" or the class raised, with
\* the number of the invocation to tell one value from the next
Outcome(cls, n) == [cls |-> cls, n |-> n]

\* last_error = None
NoError == Outcome("None", 0)

\* raise None: "exceptions must derive from BaseException"
RaiseNone == Outcome("TypeError", 0)

\* except OllamaError: every error of the module is retried
retryable_any_ollama_error(cls) == error_type(cls) # "none"

\* except (ConnectionError, TimeoutError), with ConnectionError alone
retryable_connection_only(cls) == cls = "ConnectionError"

\* except (ConnectionError, TimeoutError): the classes defined in ollama_errors
retryable(cls) == cls \in {"ConnectionError", "TimeoutError"}

\* for attempt in range(max_retries)
in_range(i) == 0 <= i /\ i < max_retries

\* the test one short: attempt < max_retries - 2
will_retry_one_short(i) == i < max_retries - 2

\* if attempt < max_retries - 1
will_retry(i) == i < max_retries - 1

\* a wait that grows by delay with each retry: delay * (attempt + 1)
wait_time_linear(i) == delay * (i + 1)

\* wait_time = delay * (2 ** attempt)
wait_time(i) == delay * (2 ^ i)

RetryIdle ==
    /\ rpc = "idle"
    /\ max_retries = 0
    /\ delay = 0
    /\ attempt = 0
    /\ last_error = NoError
    /\ outcomes = <<>>
    /\ waits = <<>>
    /\ result = [how |-> "pending", what |-> NoError]

\* a fresh process: retry_operation has not been called
RetryReset ==
    /\ rpc' = "idle"
    /\ max_retries' = 0
    /\ delay' = 0
    /\ attempt' = 0
    /\ last_error' = NoError
    /\ outcomes' = <<>>
    /\ waits' = <<>>
    /\ result' = [how |-> "pending", what |-> NoError]

\* The call, up to the first await: with an empty range the loop is skipped
\* and `raise last_error` raises None.
retry_operation(K, d) ==
    /\ rpc = "idle"
    /\ max_retries' = K
    /\ delay' = d
    /\ attempt' = 0
    /\ last_error' = NoError
    /\ IF 0 < K
       THEN rpc' = "operation" /\ UNCHANGED result
       ELSE rpc' = "raised" /\ result' = [how |-> "raised", what |-> RaiseNone]
    /\ UNCHANGED <<outcomes, waits>>

\* `return await operation()` returns
operation_returns ==
    /\ rpc = "operation"
    /\ LET o == Outcome("ok", Len(outcomes) + 1) IN
       /\ outcomes' = Append(outcomes, o)
       /\ rpc' = "returned"
       /\ result' = [how |-> "returned", what |-> o]
    /\ UNCHANGED <<max_retries, delay, attempt, last_error, waits>>

\* `await operation()` raises an exception of class cls
operation_raises(cls) ==
    /\ rpc = "operation"
    /\ LET o == Outcome(cls, Len(outcomes) + 1) IN
       /\ outcomes' = Append(outcomes, o)
       /\ IF retryable(cls)
          THEN /\ last_error' = o
               /\ IF will_retry(attempt)
                  THEN /\ waits' = Append(waits, wait_time(attempt))
                       /\ rpc' = "sleeping"
                       /\ UNCHANGED result
                  ELSE /\ rpc' = "raised"
                       /\ result' = [how |-> "raised", what |-> o]
                       /\ UNCHANGED waits
          ELSE /\ rpc' = "raised"
               /\ result' = [how |-> "raised", what |-> o]
               /\ UNCHANGED <<last_error, waits>>
    /\ UNCHANGED <<max_retries, delay, attempt>>

\* `await asyncio.sleep(wait_time)` returns and the loop goes on
sleep_returns ==
    /\ rpc = "sleeping"
    /\ attempt' = attempt + 1
    /\ IF in_range(attempt + 1)
       THEN rpc' = "operation" /\ UNCHANGED result
       ELSE rpc' = "raised" /\ result' = [how |-> "raised", what |-> last_error]
    /\ UNCHANGED <<max_retries, delay, last_error, outcomes, waits>>

RetryCall == /\ \E K \in RetryCounts, d \in Delays : retry_operation(K, d)
             /\ UNCHANGED <<cacheVars, flowVars, handlerVars, sideVars>>

OperationReturns == operation_returns /\ UNCHANGED <<cacheVars, flowVars, handlerVars, sideVars>>

OperationRaises == /\ \E cls \in FailureClasses : operation_raises(cls)
                   /\ UNCHANGED <<cacheVars, flowVars, handlerVars, sideVars>>

SleepReturns == sleep_returns /\ UNCHANGED <<cacheVars, flowVars, handlerVars, sideVars>>

\* the default of OllamaCache.__init__, used by the module's _cache
DefaultMaxAgeHours == 24

\* the defaults of retry_operation
DefaultMaxRetries == 3
DefaultDelay == 1

\* no run of main has begun
NoRun ==
    [question |-> <<>>, context |-> <<>>, model |-> <<>>,
     response |-> None, answer |-> None, gen_calls |-> 0, expect |-> None]

FlowIdle ==
    /\ pc = "idle"
    /\ run = NoRun
    /\ produced = <<>>

RetryInit == CacheInit({DefaultMaxAgeHours}) /\ RetryIdle /\ FlowIdle /\ HandlerIdle /\ SideIdle

RetryNext == RetryCall \/ OperationReturns \/ OperationRaises \/ SleepReturns

SpecRetry == RetryInit /\ [][RetryNext]_vars

---------------------------------------------------------------------------
(* The cache on its own: calls of get and set, tampering, time             *)

Init == CacheInit(MaxAgeHours) /\ RetryIdle /\ FlowIdle /\ HandlerIdle /\ SideIdle

Get == /\ \E t \in Triples, fault \in GetFaults : get(t[1], t[2], t[3], fault)
       /\ UNCHANGED <<retryVars, flowVars, handlerVars, sideVars>>

Set == /\ \E t \in Triples, r \in Responses, fault \in SetFaults :
              set(t[1], r, t[2], t[3], fault)
       /\ UNCHANGED <<retryVars, flowVars, handlerVars, sideVars>>

Tamper == /\ \E k \in DOMAIN files : \E payload \in Malformed(now) : Corrupt(k, payload)
          /\ UNCHANGED <<retryVars, flowVars, handlerVars, sideVars>>

Elapse == Tick /\ UNCHANGED <<retryVars, flowVars, handlerVars, sideVars>>

Next == Get \/ Set \/ Tamper \/ Elapse

Spec == Init /\ [][Next]_vars

---------------------------------------------------------------------------
(* The cache with clear: calls of set and clear, time                      *)

\* values of the argument max_age_hours of clear
ClearHours == {<<>>, <<1>>}

Clear == /\ \E h \in ClearHours, skipped \in SUBSET DOMAIN files : clear(h, skipped)
         /\ UNCHANGED <<retryVars, flowVars, handlerVars, sideVars>>

\* set as clear sees it: the file and its modification time, whatever the response
Store == /\ \E t \in Triples, fault \in SetFaults : set(t[1], <<"x">>, t[2], t[3], fault)
         /\ UNCHANGED <<retryVars, flowVars, handlerVars, sideVars>>

ClearNext == Store \/ Elapse \/ Clear

SpecClear == Init /\ [][ClearNext]_vars

---------------------------------------------------------------------------
(* The cache with a maximum age that is no whole number of hours           *)

\* a quarter of an hour, the step of the clock and of the maximum age here
QuarterSeconds == SecondsPerHour \div 4

\* values of the constructor's max_age_hours, in quarters of an hour: 0.5
\* and 1 hour
MaxAgeQuarters == {2, 4}

\* OllamaCache.__init__ with max_age_hours = quarters / 4 on an empty cache
\* directory: max_age_seconds = max_age_hours * 3600
CacheInitQuarters(quarters) ==
    /\ files = <<>>
    /\ mtimes = <<>>
    /\ cleared = NoClear
    /\ now = 0
    /\ \E q \in quarters : max_age_seconds = q * QuarterSeconds
    /\ last = Call("init", <<>>, <<>>, <<>>, <<>>, Returned(None, "init", FALSE))

\* A quarter of an hour passes, within the first hour.
ElapseQuarter ==
    /\ now < SecondsPerHour
    /\ now' = now + QuarterSeconds
    /\ UNCHANGED <<files, mtimes, max_age_seconds, last, cleared>>
    /\ UNCHANGED <<retryVars, flowVars, handlerVars, sideVars>>

ClearAgeInit ==
    CacheInitQuarters(MaxAgeQuarters) /\ RetryIdle /\ FlowIdle /\ HandlerIdle /\ SideIdle

ClearAgeNext == Store \/ ElapseQuarter \/ Clear

SpecClearAge == ClearAgeInit /\ [][ClearAgeNext]_vars

---------------------------------------------------------------------------
(* main and query_ollama of ollama_simple_async                            *)

MinQuestionLength == 3
MaxQuestionLength == 10000

Whitespace == {" ", "\t", "\n", "\r"}

RECURSIVE lstrip(_)
lstrip(s0) == IF s0 # <<>> /\ Head(s0) \in Whitespace THEN lstrip(Tail(s0)) ELSE s0

RECURSIVE rstrip(_)
rstrip(s0) ==
    IF s0 # <<>> /\ s0[Len(s0)] \in Whitespace
    THEN rstrip(SubSeq(s0, 1, Len(s0) - 1)) ELSE s0

\* str.strip()
strip(s0) == rstrip(lstrip(s0))

\* validate_question with the length limit itself refused
validate_question_at_limit(question) ==
    IF question = <<>> \/ strip(question) = <<>> THEN FALSE
    ELSE IF Len(strip(question)) < MinQuestionLength THEN FALSE
    ELSE IF Len(question) >= MaxQuestionLength THEN FALSE
    ELSE TRUE

validate_question(question) ==
    IF question = <<>> \/ strip(question) = <<>> THEN FALSE
    ELSE IF Len(strip(question)) < MinQuestionLength THEN FALSE
    ELSE IF Len(question) > MaxQuestionLength THEN FALSE
    ELSE TRUE

\* the characters validate_model refuses; "grave" stands for the grave accent
dangerous_chars == {"<", ">", "\"", "'", "&", "|", ";", "grave"}

validate_model(model) ==
    IF model = <<>> \/ strip(model) = <<>> THEN FALSE
    ELSE IF \E i \in 1 .. Len(model) : model[i] \in dangerous_chars THEN FALSE
    ELSE TRUE

\* `if cached_response:` -- None and the empty string are both false
truthy(value) == value # None /\ value # <<>>

\* sys.argv[1]: one question that passes validate_question, one that does not
FlowQuestions == {<<"w", "h", "y">>, <<" ", "h", "i">>}

\* what get_project_files_sync gives (never blank: main puts a notice in place
\* of a blank context)
FlowContexts == {<<"x">>, <<"y">>}

\* the model name check_ollama_connection gives, as the service reported it:
\* one that passes validate_model, one that does not
FlowModels == {<<"m">>, <<"m", "&">>}

\* data.get('response', 'No response') of a 200 answer
FlowResponses == {<<>>, <<"x">>, <<"z">>}

\* what the generation call raises: a deadline failure, a failure to connect,
\* or Exception for a status other than 200
FlowFailures == {"asyncio.TimeoutError", "aiohttp.ClientConnectorError", "Exception"}

\* A run of main begins: the question is validated, then the cache is asked
\* with the default model "".
main_start(question, context, model) ==
    /\ pc \in {"idle", "done", "exited", "crashed"}
    /\ RetryReset
    /\ LET r0 == [NoRun EXCEPT !.question = question, !.context = context,
                               !.model = model,
                               !.expect = IF <<question, context, model>> \in DOMAIN produced
                                          THEN produced[<<question, context, model>>]
                                          ELSE None]
       IN
       IF ~validate_question(question)
       THEN /\ pc' = "exited"
            /\ run' = r0
            /\ UNCHANGED cacheVars
       ELSE /\ get(question, context, <<>>, "none")
            /\ IF truthy(last'.result)
               THEN pc' = "done" /\ run' = [r0 EXCEPT !.answer = last'.result]
               ELSE pc' = "query" /\ run' = r0
    /\ UNCHANGED produced

\* query_ollama up to retry_operation(_query): the results of validate_question
\* and validate_model are dropped, then the cache is asked with the model.
query_ollama ==
    /\ pc = "query"
    /\ get(run.question, run.context, run.model, "none")
    /\ IF truthy(last'.result)
       THEN /\ pc' = "writeback"
            /\ run' = [run EXCEPT !.response = last'.result]
            /\ UNCHANGED retryVars
       ELSE /\ pc' = "generate"
            /\ run' = run
            /\ retry_operation(DefaultMaxRetries, DefaultDelay)
    /\ UNCHANGED produced

\* _query: the service answers 200 with response_text, which is cached under
\* the model before it is returned through retry_operation.
query_returns(response_text) ==
    /\ pc = "generate"
    /\ operation_returns
    /\ set(run.question, response_text, run.context, run.model, "none")
    /\ pc' = "writeback"
    /\ run' = [run EXCEPT !.response = response_text, !.gen_calls = @ + 1]
    /\ produced' = [t \in DOMAIN produced \cup {<<run.question, run.context, run.model>>} |->
                      IF t = <<run.question, run.context, run.model>>
                      THEN response_text ELSE produced[t]]

\* _query raises: retry_operation decides; what it raises leaves main.
query_raises(cls) ==
    /\ pc = "generate"
    /\ operation_raises(cls)
    /\ pc' = IF rpc' = "raised" THEN "crashed" ELSE "generate"
    /\ run' = [run EXCEPT !.gen_calls = @ + 1]
    /\ UNCHANGED <<cacheVars, produced>>

\* main after query_ollama: cache_response(question, context, response) hands
\* context to the parameter response and response to the parameter context.
main_writeback ==
    /\ pc = "writeback"
    /\ set(run.question, run.context, run.response, <<>>, "none")
    /\ pc' = "done"
    /\ run' = [run EXCEPT !.answer = run.response]
    /\ UNCHANGED <<retryVars, produced>>

MainStart == /\ \E q \in FlowQuestions, c \in FlowContexts, m \in FlowModels :
                    main_start(q, c, m)
             /\ UNCHANGED <<handlerVars, sideVars>>

QueryOllama == query_ollama /\ UNCHANGED <<handlerVars, sideVars>>

QueryReturns == /\ \E r \in FlowResponses : query_returns(r)
                /\ UNCHANGED <<handlerVars, sideVars>>

QueryRaises == /\ \E cls \in FlowFailures : query_raises(cls)
               /\ UNCHANGED <<handlerVars, sideVars>>

MainWriteback == main_writeback /\ UNCHANGED <<handlerVars, sideVars>>

FlowInit == CacheInit({DefaultMaxAgeHours}) /\ RetryIdle /\ FlowIdle /\ HandlerIdle /\ SideIdle

FlowNext == MainStart \/ QueryOllama \/ QueryReturns \/ QueryRaises \/ MainWriteback

SpecFlow == FlowInit /\ [][FlowNext]_vars

\* C7 (lookup / write-back): once a run has obtained a response R from the
\* generation call for a question, context and model, a later run with the
\* same three (before expiry) answers R and makes no generation call.
C7_LookupWriteBack ==
    run.expect # None
    => /\ run.gen_calls = 0
       /\ pc \notin {"generate", "crashed"}
       /\ pc = "done" => run.answer = run.expect

---------------------------------------------------------------------------
(* The error handler on its own: calls of handle_error and clear_stats     *)

HandleError ==
    /\ \E error \in HandledErrors, log_fails \in BOOLEAN : handle_error(error, log_fails)
    /\ UNCHANGED <<cacheVars, retryVars, flowVars, sideVars>>

ClearStats == clear_stats /\ UNCHANGED <<cacheVars, retryVars, flowVars, sideVars>>

ErrorsInit == CacheInit({DefaultMaxAgeHours}) /\ RetryIdle /\ FlowIdle /\ HandlerIdle /\ SideIdle

ErrorsNext == HandleError \/ ClearStats

SpecErrors == ErrorsInit /\ [][ErrorsNext]_vars

---------------------------------------------------------------------------
(* validate_question and check_ollama_connection on their own              *)

\* the modules as imported: _cache = OllamaCache(), _error_handler =
\* ErrorHandler(), no call made
ModuleInit ==
    CacheInit({DefaultMaxAgeHours}) /\ RetryIdle /\ FlowIdle /\ HandlerIdle /\ SideIdle

\* numbers of characters of the body of a question: around the lower limit
\* and around the upper limit
BodyLengths == (0 .. 5) \cup ((MaxQuestionLength - 5) .. (MaxQuestionLength + 1))

\* the whitespace put before and after the body of a question
Pads == {<<>>, <<" ">>, <<"\t">>, <<" ", "\n">>}

\* the questions handed to validate_question
InputQuestions ==
    {lead \o [i \in 1 .. n |-> "q"] \o trail :
        lead \in Pads, n \in BodyLengths, trail \in Pads}

ValidateQuestion ==
    /\ \E question \in InputQuestions :
          validated' = [called |-> TRUE, question |-> question,
                        result |-> validate_question(question)]
    /\ UNCHANGED <<cacheVars, retryVars, flowVars, handlerVars, connected, workers, procs, sizes>>

SpecValidate == ModuleInit /\ [][ValidateQuestion]_vars

\* response.status of a successful answer
StatusOK == 200

Statuses == {StatusOK, 404, 500}

\* longest model list the service answers with
MaxModels == 2

\* the `size` of an entry of the model list, in bytes: <<>> when the entry
\* carries none
ModelSizes == {<<>>, <<0>>, <<1>>, <<2>>}

\* the entries of data['models']: each carries a name; the list has at most
\* MaxModels entries
ModelEntries == [name : {<<"a">>, <<"b">>}, size : ModelSizes]

no_models_message ==
    <<"N", "o", " ", "h", "a", "y", " ", "m", "o", "d", "e", "l", "o", "s",
      " ", "d", "i", "s", "p", "o", "n", "i", "b", "l", "e", "s", " ", "e",
      "n", " ", "O", "l", "l", "a", "m", "a">>

undetermined_message ==
    <<"N", "o", " ", "s", "e", " ", "p", "u", "d", "o", " ", "d", "e", "t",
      "e", "r", "m", "i", "n", "a", "r", " ", "e", "l", " ", "m", "e", "j",
      "o", "r", " ", "m", "o", "d", "e", "l", "o">>

unreachable_message ==
    <<"N", "o", " ", "s", "e", " ", "p", "u", "e", "d", "e", " ", "c", "o",
      "n", "e", "c", "t", "a", "r", " ", "a", " ", "O", "l", "l", "a", "m",
      "a", ".", " ", "V", "e", "r", "i", "f", "i", "c", "a", " ", "q", "u",
      "e", " ", "e", "s", "t", "e", " ", "e", "j", "e", "c", "u", "t", "a",
      "n", "d", "o", "s", "e", ".">>

\* str() of a natural number
RECURSIVE str_int(_)
str_int(n) ==
    LET digits == <<"0", "1", "2", "3", "4", "5", "6", "7", "8", "9">> IN
    IF n < 10 THEN <<digits[n + 1]>>
    ELSE str_int(n \div 10) \o <<digits[(n % 10) + 1]>>

\* f"Error HTTP {response.status}"
http_error_message(status) ==
    <<"E", "r", "r", "o", "r", " ", "H", "T", "T", "P", " ">> \o str_int(status)

\* model.get('size', 0)
size_of(model) == IF model.size = <<>> THEN 0 ELSE model.size[1]

\* The loop over the model list: best_model after the entries of `models`,
\* from the best_model and largest_size held before them.  size_mb is
\* size_bytes / 2^20, so sizes compare in MB as they compare in bytes.
RECURSIVE select(_, _, _)
select(models, best_model, largest_size) ==
    IF models = <<>> THEN best_model
    ELSE IF size_of(Head(models)) > largest_size
         THEN select(Tail(models), Head(models).name, size_of(Head(models)))
         ELSE select(Tail(models), best_model, largest_size)

\* the error a refused connection raises
refused ==
    RawError("aiohttp.ClientConnectorError",
             <<"C", "o", "n", "n", "e", "c", "t", "i", "o", "n", " ", "r", "e", "f",
               "u", "s", "e", "d">>)

\* check_ollama_connection: the pair it returns.  failure is what is raised
\* while the request is made: "timeout" for asyncio.TimeoutError,
\* "client_error" for an aiohttp.ClientConnectorError, "none" for an answer.
connection_result(failure, status, models) ==
    IF failure = "timeout" THEN [ok |-> FALSE, value |-> unreachable_message]
    ELSE IF failure = "client_error"
         THEN [ok |-> FALSE, value |-> get_user_message(classify_error(refused))]
    ELSE IF status # StatusOK THEN [ok |-> FALSE, value |-> http_error_message(status)]
    ELSE IF models = <<>> THEN [ok |-> FALSE, value |-> no_models_message]
    ELSE LET best_model == select(models, None, 0) IN
         IF best_model = None THEN [ok |-> FALSE, value |-> undetermined_message]
         ELSE [ok |-> TRUE, value |-> best_model]

check_ollama_connection(failure, status, models) ==
    /\ connected' = [called |-> TRUE, failure |-> failure, status |-> status,
                     models |-> models,
                     ok |-> connection_result(failure, status, models).ok,
                     value |-> connection_result(failure, status, models).value]
    /\ IF failure = "client_error"
       THEN handle_error(refused, FALSE)
       ELSE UNCHANGED handlerVars

CheckConnection ==
    /\ \E failure \in {"none", "timeout", "client_error"}, status \in Statuses,
          models \in UNION {[1 .. n -> ModelEntries] : n \in 0 .. MaxModels} :
          /\ failure # "none" => status = StatusOK /\ models = <<>>
          /\ check_ollama_connection(failure, status, models)
    /\ UNCHANGED <<cacheVars, retryVars, flowVars, validated, workers, procs, sizes>>

SpecConnection == ModuleInit /\ [][CheckConnection]_vars

---------------------------------------------------------------------------
(* handle_error called from the threads of a pool                          *)

\* The failures the file scan hands to handle_error from a worker thread.
WorkerErrors ==
    {RawError(cls, <<"b", "o", "o", "m">>) :
        cls \in {"FileNotFoundError", "PermissionError", "Exception"}}

\* the error handle_error goes on with: a raw failure is classified
classified(error) ==
    IF ~isinstance(error, "OllamaError") THEN classify_error(error) ELSE error

\* `self.error_count += 1`, first half: the thread reads the attribute.
\* The statement is a read, an addition and a write with no lock around
\* them; another thread may run between the read and the write.
load_count(w, error) ==
    /\ workers[w].pc = "idle"
    /\ workers' = [workers EXCEPT ![w] = [pc |-> "loaded_count",
                                          error |-> error,
                                          count |-> error_count, stat |-> 0]]
    /\ UNCHANGED handlerVars
    /\ UNCHANGED <<cacheVars, retryVars, flowVars, validated, connected, procs, sizes>>

\* `self.error_count += 1`, second half: the thread writes the sum back;
\* then it classifies the error, which touches nothing shared.
store_count(w) ==
    /\ workers[w].pc = "loaded_count"
    /\ error_count' = workers[w].count + 1
    /\ workers' = [workers EXCEPT ![w].pc = "counted"]
    /\ UNCHANGED <<error_stats, handled>>
    /\ UNCHANGED <<cacheVars, retryVars, flowVars, validated, connected, procs, sizes>>

\* `self.error_stats[kind] += 1`, first half: the thread reads the item
load_stat(w) ==
    /\ workers[w].pc = "counted"
    /\ workers' = [workers EXCEPT ![w].pc = "loaded_stat",
                                  ![w].stat =
                                      error_stats[classified(workers[w].error).error_type]]
    /\ UNCHANGED handlerVars
    /\ UNCHANGED <<cacheVars, retryVars, flowVars, validated, connected, procs, sizes>>

\* `self.error_stats[kind] += 1`, second half: the thread writes the sum
\* back; then it writes the log and returns the sentence of the kind.
store_stat(w) ==
    /\ workers[w].pc = "loaded_stat"
    /\ error_stats' = [error_stats EXCEPT
                           ![classified(workers[w].error).error_type] = workers[w].stat + 1]
    /\ workers' = [workers EXCEPT ![w].pc = "done"]
    /\ handled' = [op |-> "handle_error", error |-> workers[w].error,
                   classified |-> classified(workers[w].error), log_failed |-> FALSE,
                   returned |-> get_user_message(classified(workers[w].error)),
                   raised |-> "none"]
    /\ UNCHANGED error_count
    /\ UNCHANGED <<cacheVars, retryVars, flowVars, validated, connected, procs, sizes>>

WorkersNext ==
    \E w \in Workers :
        \/ \E error \in WorkerErrors : load_count(w, error)
        \/ store_count(w)
        \/ load_stat(w)
        \/ store_stat(w)

SpecWorkers == ModuleInit /\ [][WorkersNext]_vars

---------------------------------------------------------------------------
(* get and set called by concurrent callers, step by step                  *)
(*                                                                         *)
(* A call is a sequence of file operations: os.path.exists, open with      *)
(* json.load, os.path.exists again and os.remove for get; open(..., 'w')   *)
(* and the write that the end of the `with` block flushes for set.         *)
(* Another caller may run between any two of them.  Files behave as on     *)
(* POSIX: removing a file leaves the handles open on it valid, and what is *)
(* written through them is lost.  No file operation fails in these calls   *)
(* and the clock stands still, so no entry expires.                        *)

RaceQuestions == {<<"a">>, <<"b">>}

\* two responses of different lengths
RaceResponses == {<<"x">>, <<"y", "y">>}

\* the length of the document json.dump writes when the four strings are
\* empty: the field names, the punctuation, the ISO timestamp and the key
EmptyDocumentLength == 166

\* the length of the document json.dump writes for cache_data
document_length(cache_data) ==
    EmptyDocumentLength + Len(cache_data.question) + Len(cache_data.response)
    + Len(cache_data.context) + Len(cache_data.model)

\* A file that holds a document followed by the end of a longer one written
\* before it: json.load refuses it.
ExtraData == [Truncated EXCEPT !.parse = "invalid_json"]

\* the key of the call a caller is in
key_of(p) == generate_cache_key(procs[p].q, procs[p].c, procs[p].m)

\* set, first step: the key and cache_data are built and open(cache_file, 'w')
\* creates the file or cuts it to length 0.
set_open(p, question, response, context, model) ==
    LET cache_key == generate_cache_key(question, context, model) IN
    /\ procs[p].pc = "idle"
    /\ files' = set_files(cache_key, Truncated, "none")
    /\ sizes' = [k \in DOMAIN sizes \cup {cache_key} |->
                    IF k = cache_key THEN 0 ELSE sizes[k]]
    /\ mtimes' = written(cache_key)
    /\ procs' = [procs EXCEPT ![p] =
                    [IdleProc EXCEPT !.pc = "set_opened", !.op = "set",
                                     !.q = question, !.c = context, !.m = model,
                                     !.r = response, !.timestamp = now,
                                     !.handle = "open"]]
    /\ UNCHANGED <<now, max_age_seconds, last, cleared>>
    /\ UNCHANGED <<retryVars, flowVars, handlerVars, validated, connected, workers>>

\* set, second step: the document goes to the start of the file the handle
\* is open on and the handle is closed.  A file that is longer than the
\* document keeps its end; a file removed since the open is not brought back.
set_write(p) ==
    LET cache_key == key_of(p)
        cache_data == json_dump(procs[p].q, procs[p].r, procs[p].c, procs[p].m,
                                procs[p].timestamp, cache_key)
    IN
    /\ procs[p].pc = "set_opened"
    /\ IF procs[p].handle = "unlinked"
       THEN UNCHANGED <<files, sizes, mtimes>>
       ELSE /\ files' = [files EXCEPT ![cache_key] =
                            IF document_length(cache_data) >= sizes[cache_key]
                            THEN cache_data ELSE ExtraData]
            /\ sizes' = [sizes EXCEPT ![cache_key] =
                            IF document_length(cache_data) >= @
                            THEN document_length(cache_data) ELSE @]
            /\ mtimes' = written(cache_key)
    /\ procs' = [procs EXCEPT ![p].pc = "done", ![p].handle = "none"]
    /\ UNCHANGED <<now, max_age_seconds, last, cleared>>
    /\ UNCHANGED <<retryVars, flowVars, handlerVars, validated, connected, workers>>

\* get, first step: os.path.exists(cache_file)
get_exists(p, question, context, model) ==
    LET cache_key == generate_cache_key(question, context, model) IN
    /\ procs[p].pc = "idle"
    /\ procs' = [procs EXCEPT ![p] =
                    [IdleProc EXCEPT !.pc = IF exists(cache_key) THEN "get_found" ELSE "done",
                                     !.op = "get",
                                     !.q = question, !.c = context, !.m = model,
                                     !.seen = IF exists(cache_key) THEN "none" ELSE "miss"]]
    /\ UNCHANGED <<cacheVars, sizes>>
    /\ UNCHANGED <<retryVars, flowVars, handlerVars, validated, connected, workers>>

\* get, second step: the file is opened and read, the document parsed and
\* its age tested.  A file that is gone makes open raise FileNotFoundError,
\* an OSError.
get_read(p) ==
    LET cache_key == key_of(p)
        t == IF exists(cache_key) THEN get_try(files[cache_key], "none")
             ELSE Raised("OSError", "io", TRUE)
    IN
    /\ procs[p].pc = "get_found"
    /\ procs' = [procs EXCEPT ![p] =
                    IF t.raised \in get_caught
                    THEN [@ EXCEPT !.pc = "get_caught", !.seen = t.outcome]
                    ELSE IF t.raised = "none" /\ t.outcome = "expired"
                    THEN [@ EXCEPT !.pc = "get_expired", !.seen = t.outcome]
                    ELSE [@ EXCEPT !.pc = "done", !.seen = t.outcome,
                                   !.result = t.result, !.raised = t.raised]]
    /\ UNCHANGED <<cacheVars, sizes>>
    /\ UNCHANGED <<retryVars, flowVars, handlerVars, validated, connected, workers>>

\* get, in the except clause: `if os.path.exists(cache_file)`
get_recheck(p) ==
    /\ procs[p].pc = "get_caught"
    /\ procs' = [procs EXCEPT ![p].pc = IF exists(key_of(p)) THEN "get_removing" ELSE "done"]
    /\ UNCHANGED <<cacheVars, sizes>>
    /\ UNCHANGED <<retryVars, flowVars, handlerVars, validated, connected, workers>>

\* get, os.remove(cache_file): of an expired entry, inside the try block, or
\* of an unreadable one, inside the except clause.  The handles other callers
\* hold on the file stay open on a file that has no name.  When the file is
\* gone already os.remove raises FileNotFoundError: inside the try block it
\* is caught, inside the except clause it leaves get.
get_remove(p) ==
    LET cache_key == key_of(p) IN
    /\ procs[p].pc \in {"get_expired", "get_removing"}
    /\ IF exists(cache_key)
       THEN /\ files' = remove(cache_key)
            /\ sizes' = [k \in DOMAIN files' |-> sizes[k]]
            /\ mtimes' = kept(files')
            /\ procs' = [o \in Procs |->
                            IF o = p THEN [procs[p] EXCEPT !.pc = "done"]
                            ELSE IF procs[o].handle = "open" /\ key_of(o) = cache_key
                                 THEN [procs[o] EXCEPT !.handle = "unlinked"]
                                 ELSE procs[o]]
       ELSE /\ procs' = [procs EXCEPT ![p] =
                            IF @.pc = "get_expired"
                            THEN [@ EXCEPT !.pc = "get_caught"]
                            ELSE [@ EXCEPT !.pc = "done", !.raised = "OSError"]]
            /\ UNCHANGED <<files, sizes, mtimes>>
    /\ UNCHANGED <<now, max_age_seconds, last, cleared>>
    /\ UNCHANGED <<retryVars, flowVars, handlerVars, validated, connected, workers>>

RaceNext ==
    \E p \in Procs :
        \/ \E question \in RaceQuestions, response \in RaceResponses :
              set_open(p, question, response, <<>>, <<>>)
        \/ set_write(p)
        \/ \E question \in RaceQuestions : get_exists(p, question, <<>>, <<>>)
        \/ get_read(p)
        \/ get_recheck(p)
        \/ get_remove(p)

SpecRace == ModuleInit /\ [][RaceNext]_vars

---------------------------------------------------------------------------
(* Claims about OllamaCache                                                *)

KeyOf(call) == generate_cache_key(call.q, call.c, call.m)

SameTriple(a, b) == a.q = b.q /\ a.c = b.c /\ a.m = b.m

\* the step is a call of get for the triple t
GetStep(t) ==
    /\ last'.op = "get" /\ now' = now
    /\ last'.q = t[1] /\ last'.c = t[2] /\ last'.m = t[3]

\* C1 (round trip): a set that completed without a storage error, followed at
\* once by get for the same question, context and model with no time elapsed
\* and no failing file operation, makes get return exactly the response set.
C1_RoundTrip ==
    [][ ( /\ last.op = "set" /\ ~last.io_failed /\ last.at = now
          /\ last'.op = "get" /\ now' = now /\ SameTriple(last, last')
          /\ ~last'.io_failed )
        => (last'.raised = "none" /\ last'.result = last.r) ]_vars

\* C1 witness: get has returned the response "x" of an entry of its own triple
\* written at this very instant.
C1_Witness ==
    /\ last.op = "get" /\ last.outcome = "hit" /\ last.result = <<"x">>
    /\ exists(KeyOf(last))
    /\ files[KeyOf(last)].timestamp = now
    /\ files[KeyOf(last)].question = last.q
    /\ files[KeyOf(last)].context = last.c
    /\ files[KeyOf(last)].model = last.m

\* C2 (expiry on read): for an entry written at time t, get returns the stored
\* response and leaves the file while now - t <= max_age_seconds; once
\* now - t > max_age_seconds get returns None and the file of the key is gone
\* after the call; with no file for the key get returns None and creates none,
\* so later gets keep returning None until a new set.
C2_ExpiryOnRead ==
    [][ \A t \in Triples :
          LET k == generate_cache_key(t[1], t[2], t[3]) IN
          (GetStep(t) /\ ~last'.io_failed) =>
            /\ (exists(k) /\ WellFormed(files[k])
                  /\ now - files[k].timestamp <= max_age_seconds)
               => /\ last'.raised = "none"
                  /\ last'.result = files[k].response
                  /\ files' = files
            /\ (exists(k) /\ WellFormed(files[k])
                  /\ now - files[k].timestamp > max_age_seconds)
               => /\ last'.raised = "none"
                  /\ last'.result = None
                  /\ k \notin DOMAIN files'
            /\ ~exists(k)
               => /\ last'.raised = "none"
                  /\ last'.result = None
                  /\ k \notin DOMAIN files' ]_vars

\* C2 witness: get found a well-formed entry older than max_age_seconds,
\* returned None and the file is gone.
C2_Witness ==
    /\ last.op = "get" /\ last.outcome = "expired" /\ last.raised = "none"
    /\ last.prior \in Responses
    /\ last.result = None
    /\ ~exists(KeyOf(last))

\* C3 (corruption tolerance): whenever the file of a key holds a payload that
\* cannot be parsed or lacks a required field, get for that key returns None,
\* deletes the file and does not raise.
C3_CorruptionTolerance ==
    (last.op = "get" /\ last.outcome = "corrupt" /\ ~last.io_failed)
    => /\ last.raised = "none"
       /\ last.result = None
       /\ ~exists(KeyOf(last))

\* C4 (no raise on I/O failure): when a file operation of get or set fails,
\* get returns None and set returns normally; neither raises to the caller.
C4_NeverRaisesOnIOFailure ==
    (last.op \in {"get", "set"} /\ last.io_failed)
    => (last.raised = "none" /\ last.result = None)

\* C5 (key separation): a get for one triple never returns a value that was
\* set for a triple differing from it in some component.
C5_KeySeparation ==
    (last.op = "get" /\ last.outcome = "hit")
    => /\ files[KeyOf(last)].question = last.q
       /\ files[KeyOf(last)].context = last.c
       /\ files[KeyOf(last)].model = last.m

\* C6 (overwrite): after a set that completed, the file of its key holds that
\* set's record and nothing of what it held before, whatever sets came
\* earlier; a get for the same triple that follows it returns that set's
\* response while no more than max_age_seconds have passed since that set,
\* and None afterwards.
C6_Overwrite ==
    [][ /\ (last'.op = "set" /\ ~last'.io_failed)
           => /\ KeyOf(last') \in DOMAIN files'
              /\ files'[KeyOf(last')] =
                   json_dump(last'.q, last'.r, last'.c, last'.m, last'.at, KeyOf(last'))
        /\ ( /\ last.op = "set" /\ ~last.io_failed
             /\ last'.op = "get" /\ now' = now /\ SameTriple(last, last')
             /\ ~last'.io_failed )
           => /\ last'.raised = "none"
              /\ last'.result = IF now - last.at > max_age_seconds THEN None ELSE last.r
      ]_vars

\* C6 witness: a set for the triple ("a", "", "") has replaced an entry of
\* that triple holding "x", written earlier, by one holding "" stamped now.
C6_Witness ==
    /\ last.op = "set" /\ ~last.io_failed
    /\ last.q = <<"a">> /\ last.c = <<>> /\ last.m = <<>>
    /\ last.prior = <<"x">> /\ last.r = <<>>
    /\ last.at > 0
    /\ files[KeyOf(last)].response = <<>>
    /\ files[KeyOf(last)].timestamp = last.at

---------------------------------------------------------------------------
(* Claims about retry_operation                                            *)

\* the failure of an invocation has kind Connection or Timeout
RetryableKind(o) == o.cls # "ok" /\ error_type(o.cls) \in {"connection", "timeout"}

AllRetryableFailures == \A i \in 1 .. Len(outcomes) : RetryableKind(outcomes[i])

\* C8 (fail fast): an invocation that fails with a kind other than Connection
\* or Timeout is the last one: retry_operation has raised that very failure,
\* and the only waits are those that came before it.
C8_FailFast ==
    \A i \in 1 .. Len(outcomes) :
        (outcomes[i].cls # "ok" /\ ~RetryableKind(outcomes[i]))
        => /\ i = Len(outcomes)
           /\ rpc = "raised"
           /\ result = [how |-> "raised", what |-> outcomes[i]]
           /\ Len(waits) = i - 1

\* C8 witness: with max_retries = 3 the second invocation failed with a
\* ValidationError and retry_operation raised it.
C8_Witness ==
    /\ max_retries = 3 /\ Len(outcomes) = 2
    /\ outcomes[1].cls = "ConnectionError"
    /\ outcomes[2].cls = "ValidationError"
    /\ rpc = "raised" /\ result.what = outcomes[2]

\* C9 (retry bound): with max_retries = K >= 1 and every invocation failing
\* with kind Connection or Timeout, retry_operation goes on until it has
\* invoked the operation K times and then raises the failure of the K-th
\* invocation; it returns normally only with the value of a successful one.
C9_RetryBound ==
    /\ (max_retries >= 1 /\ AllRetryableFailures)
       => /\ Len(outcomes) <= max_retries
          /\ Len(outcomes) < max_retries => rpc \in {"operation", "sleeping"}
          /\ Len(outcomes) = max_retries
             => /\ rpc = "raised"
                /\ result = [how |-> "raised", what |-> outcomes[max_retries]]
    /\ rpc = "returned"
       => /\ Len(outcomes) >= 1
          /\ outcomes[Len(outcomes)].cls = "ok"
          /\ result = [how |-> "returned", what |-> outcomes[Len(outcomes)]]

\* C9 witness: three retryable failures with max_retries = 3, the third raised.
C9_Witness ==
    /\ max_retries = 3 /\ Len(outcomes) = 3 /\ AllRetryableFailures
    /\ rpc = "raised" /\ result.what = outcomes[3]

\* C10 (success short-circuits): after N retryable failures with
\* max_retries >= N + 1 the operation is invoked once more, and an invocation
\* that succeeds is the last one: retry_operation has returned its value.
C10_SuccessShortCircuits ==
    /\ \A i \in 1 .. Len(outcomes) :
          outcomes[i].cls = "ok"
          => /\ i = Len(outcomes)
             /\ rpc = "returned"
             /\ result = [how |-> "returned", what |-> outcomes[i]]
    /\ (AllRetryableFailures /\ Len(outcomes) + 1 <= max_retries)
       => rpc \in {"operation", "sleeping"}

\* C10 witness: two retryable failures, then a success on the third
\* invocation, whose value was returned.
C10_Witness ==
    /\ Len(outcomes) = 3
    /\ outcomes[1].cls = "ConnectionError"
    /\ outcomes[2].cls = "TimeoutError"
    /\ outcomes[3].cls = "ok"
    /\ rpc = "returned" /\ result.what = outcomes[3]

\* C11 (exponential backoff): the wait before the retry with index i is
\* delay * 2^i, so the waits are delay, 2*delay, 4*delay, ...; each wait lies
\* between two invocations: once retry_operation has ended after at least one
\* invocation the number of waits is the number of invocations minus one, and
\* a call that invokes nothing waits for nothing.
C11_ExponentialBackoff ==
    /\ \A i \in 1 .. Len(waits) : waits[i] = delay * (2 ^ (i - 1))
    /\ Len(waits) <= Len(outcomes)
    /\ rpc = "operation" => Len(waits) = Len(outcomes)
    /\ rpc = "sleeping" => Len(waits) = Len(outcomes)
    /\ (rpc \in {"returned", "raised"} /\ Len(outcomes) >= 1)
       => Len(waits) = Len(outcomes) - 1
    /\ Len(outcomes) = 0 => waits = <<>>

\* C11 witness: with delay = 2 and four invocations, the first three failing
\* retryably, retry_operation has ended after the waits 2, 4 and 8.
C11_Witness ==
    /\ delay = 2 /\ Len(outcomes) = 4
    /\ waits = <<2, 4, 8>>
    /\ rpc \in {"returned", "raised"}

---------------------------------------------------------------------------
(* Claims about the error handler                                          *)

\* the call recorded in `handled` classified a raw failure
ClassifiedRaw == handled.op = "handle_error" /\ handled.error.error_type = "none"

\* the failure is none of those a rule of the classifier names
MatchesNoRule(error) ==
    /\ ~isinstance(error, "asyncio.TimeoutError")
    /\ ~isinstance(error, "aiohttp.ClientError")
    /\ ~isinstance(error, "FileNotFoundError")
    /\ ~isinstance(error, "PermissionError")

\* C15 (classification is total and deterministic): every raw failure handed
\* to the handler is classified, without raising, to an error of exactly one
\* of the ten kinds; a failure matching no rule gets the kind unknown with its
\* type name and message in the details; and two failures of the same type
\* and message get the same kind.
C15_ClassificationTotal ==
    /\ [](ClassifiedRaw =>
            /\ handled.raised = "none"
            /\ handled.classified.error_type \in ErrorTypes
            /\ MatchesNoRule(handled.error) =>
                 /\ handled.classified.error_type = "unknown"
                 /\ handled.classified.details =
                      [original_error |-> handled.error.message,
                       error_type |-> type_name(handled.error)])
    /\ [][ ( /\ ClassifiedRaw /\ ClassifiedRaw'
             /\ handled'.error.cls = handled.error.cls
             /\ handled'.error.message = handled.error.message )
           => handled'.classified.error_type = handled.classified.error_type ]_vars

\* C15 witness: an Exception with the message "boom" was classified unknown,
\* with "Exception" and "boom" in the details.
C15_Witness ==
    /\ ClassifiedRaw
    /\ handled.error.cls = "Exception"
    /\ handled.error.message = <<"b", "o", "o", "m">>
    /\ handled.classified.error_type = "unknown"
    /\ handled.classified.details.error_type = "Exception"
    /\ handled.classified.details.original_error = <<"b", "o", "o", "m">>

\* C16 (client-failure rule): a client failure that is no deadline failure is
\* classified timeout when its message contains "timeout", connection when
\* it contains "connection" and not "timeout", and network when it contains
\* neither.
C16_ClientFailureRule ==
    ( /\ ClassifiedRaw
      /\ isinstance(handled.error, "aiohttp.ClientError")
      /\ ~isinstance(handled.error, "asyncio.TimeoutError") )
    => handled.classified.error_type =
         IF contains(lower(handled.error.message), timeout_word) THEN "timeout"
         ELSE IF contains(lower(handled.error.message), connection_word) THEN "connection"
         ELSE "network"

\* C17 (rule order): a deadline failure is classified timeout also when it is
\* a client failure too or its message contains "connection"; a client
\* failure whose message contains both words is timeout; a missing-file and a
\* permission failure are validation whatever their message contains.
C17_RuleOrder ==
    ClassifiedRaw =>
      /\ isinstance(handled.error, "asyncio.TimeoutError")
         => handled.classified.error_type = "timeout"
      /\ ( /\ isinstance(handled.error, "aiohttp.ClientError")
           /\ contains(lower(handled.error.message), timeout_word)
           /\ contains(lower(handled.error.message), connection_word) )
         => handled.classified.error_type = "timeout"
      /\ ( \/ isinstance(handled.error, "FileNotFoundError")
           \/ isinstance(handled.error, "PermissionError") )
         => handled.classified.error_type = "validation"

\* C17 witness: a failure that is both a deadline failure and a client
\* failure, with "Connection refused" as its message, was classified timeout.
C17_Witness ==
    /\ ClassifiedRaw
    /\ handled.error.cls = "aiohttp.ServerTimeoutError"
    /\ contains(lower(handled.error.message), connection_word)
    /\ ~contains(lower(handled.error.message), timeout_word)
    /\ handled.classified.error_type = "timeout"

RECURSIVE SumOver(_, _)
SumOver(f, S) ==
    IF S = {} THEN 0
    ELSE LET t == CHOOSE x \in S : TRUE IN f[t] + SumOver(f, S \ {t})

\* C18 (error statistics): total_count is the sum of the counts by kind in
\* every state; a call of handle_error raises total_count by one and the
\* count of the classified kind, and of no other, by one, also when the log
\* cannot be written; a count goes down only by clear_stats, which leaves
\* every count at 0.
C18_ErrorStatistics ==
    /\ [](error_count = SumOver(error_stats, ErrorTypes))
    /\ [][ /\ (handled'.op = "handle_error" /\ handlerVars' # handlerVars)
              => /\ handled'.raised = "none"
                 /\ error_count' = error_count + 1
                 /\ error_stats' =
                      [error_stats EXCEPT ![handled'.classified.error_type] = @ + 1]
           /\ ( \/ error_count' < error_count
                \/ \E t \in ErrorTypes : error_stats'[t] < error_stats[t] )
              => handled'.op = "clear_stats"
           /\ handled'.op = "clear_stats"
              => /\ error_count' = 0
                 /\ \A t \in ErrorTypes : error_stats'[t] = 0 ]_vars

\* C18 witness: two failures were counted, one of kind timeout and one of
\* kind unknown, the log of the second could not be written.
C18_Witness ==
    /\ handled.op = "handle_error" /\ handled.log_failed
    /\ handled.classified.error_type = "unknown"
    /\ error_count = 2
    /\ error_stats["timeout"] = 1 /\ error_stats["unknown"] = 1

---------------------------------------------------------------------------
(* Claims about query_ollama                                               *)

\* the kind the classifier gives a raw failure of the generation call
ClassifiedKind(cls) == classify_error(RawError(cls, <<>>)).error_type

\* C12 (generation failures are classified, then retried by kind): when the
\* generation call fails with a raw failure the classifier maps to timeout or
\* connection, query_ollama goes on to the maximum number of attempts, and
\* what it raises once they have all failed is a classified error of that
\* kind.
C12_ClassifiedRetry ==
    ( /\ pc = "crashed"
      /\ \A i \in 1 .. Len(outcomes) :
            ClassifiedKind(outcomes[i].cls) \in {"timeout", "connection"} )
    => /\ Len(outcomes) = DefaultMaxRetries
       /\ error_type(result.what.cls) = ClassifiedKind(outcomes[Len(outcomes)].cls)

\* C13 (validation stops a query): a run whose question validate_question
\* rejects or whose model validate_model rejects goes no further than the
\* call of query_ollama: no lookup under the model, no generation call, no
\* retry.
C13_ValidationStops ==
    ( /\ pc # "idle"
      /\ ~validate_question(run.question) \/ ~validate_model(run.model) )
    => /\ pc \in {"exited", "query"}
       /\ run.gen_calls = 0
       /\ rpc = "idle"

\* C14 (a failed generation call is reported by a returned value): when the
\* service answers with a status other than 200, or the call fails with a
\* deadline failure, query_ollama returns a string to its caller and raises
\* nothing.
C14_FailureReturned ==
    ( /\ Len(outcomes) >= 1
      /\ outcomes[Len(outcomes)].cls \in {"Exception", "asyncio.TimeoutError"} )
    => /\ pc \in {"writeback", "done"}
       /\ run.response # None

---------------------------------------------------------------------------
(* Claims about clear                                                      *)

\* the step is a call of clear
ClearStep == last'.op = "clear" /\ now' = now

\* the threshold in seconds of the call recorded in cleared'
ClearThreshold ==
    IF cleared'.max_age_hours = <<>>
    THEN (max_age_seconds \div SecondsPerHour) * SecondsPerHour
    ELSE cleared'.max_age_hours[1] * SecondsPerHour

\* C20 (clear): clear(h) deletes exactly the files whose age by modification
\* time exceeds h hours, but for those it cannot inspect or remove, which it
\* skips; every other file stays with its content and modification time;
\* the count returned is the number of files deleted; clear does not raise.
C20_Clear ==
    [][ ClearStep =>
          /\ last'.raised = "none"
          /\ \A k \in DOMAIN files :
                k \notin DOMAIN files'
                <=> (now - mtimes[k] > ClearThreshold /\ k \notin cleared'.skipped)
          /\ DOMAIN files' \subseteq DOMAIN files
          /\ \A k \in DOMAIN files' : files'[k] = files[k] /\ mtimes'[k] = mtimes[k]
          /\ cleared'.count = Cardinality(DOMAIN files \ DOMAIN files')
      ]_vars

\* C20 witness: clear(1) found two files older than an hour, deleted the one
\* it could remove and returned 1; the one it could not remove is left.
C20_Witness ==
    /\ last.op = "clear" /\ last.at = now
    /\ cleared.max_age_hours = <<1>>
    /\ cleared.count = 1
    /\ Cardinality(DOMAIN files) = 1
    /\ \E k \in DOMAIN files : k \in cleared.skipped /\ now - mtimes[k] > SecondsPerHour

---------------------------------------------------------------------------
(* Further claims about the flow, the cache and retry_operation            *)

\* C27 (provenance of cached values): every value other than None that a
\* cache lookup of the flow returns for a question, a context and a model is
\* a response the generation call produced for that question and context
\* (and that model, when the lookup names one).
C27_Provenance ==
    (last.op = "get" /\ last.result # None)
    => \E t \in DOMAIN produced :
          /\ t[1] = last.q /\ t[2] = last.c
          /\ t[3] = last.m \/ last.m = <<>>
          /\ produced[t] = last.result

\* C29 (state unchanged on a failed set): a set that fails with a storage
\* error while the file of its key holds a well-formed, unexpired entry
\* leaves that entry as it was.
C29_FailedSetKeepsEntry ==
    [][ ( /\ last'.op = "set" /\ now' = now /\ last'.io_failed
          /\ KeyOf(last') \in DOMAIN files
          /\ WellFormed(files[KeyOf(last')])
          /\ ~expired(files[KeyOf(last')].timestamp) )
        => /\ KeyOf(last') \in DOMAIN files'
           /\ files'[KeyOf(last')] = files[KeyOf(last')] ]_vars

\* C30 (at least one invocation): whatever max_retries is, once
\* retry_operation has ended the operation has been invoked at least once,
\* and a failure it raised is the failure of one of the invocations.
C30_InvokesAtLeastOnce ==
    rpc \in {"returned", "raised"}
    => /\ Len(outcomes) >= 1
       /\ rpc = "raised" => \E i \in 1 .. Len(outcomes) : result.what = outcomes[i]

---------------------------------------------------------------------------
(* Claims about validate_question and check_ollama_connection              *)

\* the positions of s0 that hold something other than whitespace
Inked(s0) == {i \in 1 .. Len(s0) : s0[i] \notin Whitespace}

\* s0 without its leading and trailing whitespace has at least n characters
TrimsToAtLeast(s0, n) == \E i \in Inked(s0) : \E j \in Inked(s0) : j - i >= n - 1

\* C21 (limits of validate_question): validate_question accepts a question
\* exactly when at least 3 characters are left after trimming its whitespace
\* and the question as given has at most 10000 characters; so an empty or
\* blank question and one of 10001 characters are refused, and one of 3 or of
\* 10000 characters is accepted.
C21_QuestionLimits ==
    validated.called
    => (validated.result
        <=> /\ TrimsToAtLeast(validated.question, MinQuestionLength)
            /\ Len(validated.question) <= MaxQuestionLength)

\* a question of exactly 10000 characters was accepted
C21_Witness ==
    /\ validated.called
    /\ Len(validated.question) = MaxQuestionLength
    /\ validated.result

\* C22 (model selection): when the service answers the model list request
\* with status 200 and a non-empty list, check_ollama_connection returns
\* success and the name of an entry whose size is the largest of the list.
C22_SelectsLargest ==
    ( /\ connected.called /\ connected.failure = "none"
      /\ connected.status = StatusOK /\ connected.models # <<>> )
    => /\ connected.ok
       /\ \E i \in 1 .. Len(connected.models) :
             /\ connected.models[i].name = connected.value
             /\ \A j \in 1 .. Len(connected.models) :
                   size_of(connected.models[j]) <= size_of(connected.models[i])

---------------------------------------------------------------------------
(* Claims about concurrent callers                                         *)

\* C23 (no lost updates): when every worker has completed its call of
\* handle_error, and clear_stats was not called, the total count has grown by
\* the number of calls and so has the sum of the counts of the kinds.
C23_NoLostUpdates ==
    (\A w \in Workers : workers[w].pc = "done")
    => /\ error_count = Cardinality(Workers)
       /\ SumOver(error_stats, ErrorTypes) = Cardinality(Workers)

\* the caller has completed a call of op
Completed(p, op) == procs[p].pc = "done" /\ procs[p].op = op

\* the two callers are the only ones that have called the cache
Alone(p1, p2) == \A o \in Procs \ {p1, p2} : procs[o].pc = "idle"

\* what a get of the key, run on its own now, returns
FollowingGet(cache_key) == get_outcome(cache_key, "none").result

\* C24 (concurrent sets never corrupt the entry): once two callers have each
\* completed a set for the same key, however their steps were interleaved,
\* the file of the key holds a well-formed record and get returns the
\* response of one of the two.
C24_LastWriterWins ==
    \A p1 \in Procs : \A p2 \in Procs \ {p1} :
        ( /\ Completed(p1, "set") /\ Completed(p2, "set") /\ Alone(p1, p2)
          /\ key_of(p1) = key_of(p2) )
        => /\ exists(key_of(p1))
           /\ WellFormed(files[key_of(p1)])
           /\ FollowingGet(key_of(p1)) \in {procs[p1].r, procs[p2].r}

\* C25 (a get does not destroy the value being written): once a get and a
\* set for the same key have both completed, however their steps were
\* interleaved, a following get returns the response of the set.
C25_GetSparesTheWrite ==
    \A p1 \in Procs : \A p2 \in Procs \ {p1} :
        ( /\ Completed(p1, "set") /\ Completed(p2, "get") /\ Alone(p1, p2)
          /\ key_of(p1) = key_of(p2) )
        => FollowingGet(key_of(p1)) = procs[p1].r

\* the keys the concurrent callers use
RaceKeys == {generate_cache_key(question, <<>>, <<>>) : question \in RaceQuestions}

\* C26 (keys are independent): a step of a get or a set on one key, also
\* between the steps of a call on another key, leaves the file of every
\* other key as it was: not created, not changed, not removed; and a get of
\* the other key returns after the step what it returned before it.
C26_OtherKeysUntouched ==
    [][ \A p \in Procs :
          procs'[p] # procs[p]
          => \A k \in RaceKeys \ {generate_cache_key(procs'[p].q, procs'[p].c, procs'[p].m)} :
                /\ (k \in DOMAIN files') <=> (k \in DOMAIN files)
                /\ k \in DOMAIN files => files'[k] = files[k]
                /\ FollowingGet(k)' = FollowingGet(k) ]_vars

\* a get has removed the unreadable file of its key while the entry of an
\* other key is in place
C26_Witness ==
    \E p \in Procs : \E k \in RaceKeys \ {key_of(p)} :
        /\ Completed(p, "get") /\ procs[p].seen = "corrupt" /\ procs[p].raised = "none"
        /\ ~exists(key_of(p))
        /\ exists(k) /\ WellFormed(files[k])

---------------------------------------------------------------------------
(* Claims about clear and the maximum age                                  *)

\* C28 (clear with no argument agrees with get): for every configured
\* maximum age, a whole number of hours or not, a call of clear with no
\* argument removes no entry that get would return: what get returned for a
\* key just before the call it returns just after it.
C28_ClearAgreesWithGet ==
    [][ (ClearStep /\ cleared'.max_age_hours = <<>>)
        => \A k \in DOMAIN files :
              get_outcome(k, "none").outcome = "hit"
              => get_outcome(k, "none")' = get_outcome(k, "none") ]_vars

====
